---- MODULE Spec2Model ----
(***************************************************************************)
(* Model of searcher_client/src/lib.rs: send_bundle_no_wait and            *)
(* send_bundle_with_confirmation (the confirmation coordinator).           *)
(*                                                                         *)
(* One call of one of the two entry points is modelled from its inputs to  *)
(* its result.  Actions are the stretches of code between two suspension   *)
(* points (.await).  Times are in milliseconds.                            *)
(***************************************************************************)
EXTENDS Integers, Sequences, FiniteSets, TLC

VARIABLES
    api,              \* entry point called: "no_wait", "confirm" or "create_channel"
    url,              \* the url argument of create_grpc_channel, as characters
    endpoint,         \* lib.rs:91-94: the Endpoint, "-" before it is built
    transactions,     \* the &[VersionedTransaction] argument
    env,              \* value of JITO_BUNDLE_RESULT_WAIT_SECONDS, or Unset
    overflow_checks,  \* build profile: "on" panics on integer overflow, "off" wraps;
                      \* "?" until the first overflow shows which build runs
    silent,           \* the result stream never emits an item and never closes
    pc,               \* position of the call
    bundle_signatures,\* lib.rs:111
    submitCalls,      \* SendBundleRequests issued through searcher_client
    submitResult,     \* what the submit call returned to send_bundle_no_wait
    time_left,        \* lib.rs:127
    waited,           \* wall-clock time since the event loop was entered
    nEvents,          \* stream items consumed by the loop
    lastEvent,        \* the last BundleResult the loop body ran on
    seenAccepted,     \* an Accepted event was consumed
    exit,             \* why the while-let loop ended
    queried,          \* signatures passed to get_signature_status_with_commitment
    qres,             \* result of each status query, "pending" until it completes
    outcome           \* what the call returned

vars == <<api, url, endpoint, transactions, env, overflow_checks, silent, pc, bundle_signatures,
          submitCalls, submitResult, time_left, waited, nEvents, lastEvent, seenAccepted,
          exit, queried, qres, outcome>>

(***************************************************************************)
(* Bounds of the model.                                                    *)
(***************************************************************************)
MaxEvents == 2     \* most items the stream delivers during one call
U64Bits == 14      \* width of the unsigned word the budget is kept in (u64, scaled)

(***************************************************************************)
(* Program constants.                                                      *)
(***************************************************************************)
DefaultWaitSeconds == 5
MillisPerSecond == 1000

U64Modulus == 2 ^ U64Bits
U64Max == U64Modulus - 1


(***************************************************************************)
(* Option<T>: None is the empty sequence, Some(v) the one-element sequence.*)
(***************************************************************************)
None == <<>>
Some(v) == <<v>>

(***************************************************************************)
(* Inputs.  A VersionedTransaction is modelled by its list of signatures   *)
(* (at least one: the bundle is signed before it is submitted).  The       *)
(* transactions of a bundle are distinct.                                  *)
(***************************************************************************)
TxPool == { <<"sigA">>, <<"sigB", "sigC">> }
Bundles ==
    { b \in UNION { [1..n -> TxPool] : n \in 0..Cardinality(TxPool) } :
        \A i, j \in 1..Len(b) : b[i] = b[j] => i = j }

DigitChars == <<"0", "1", "2", "3", "4", "5", "6", "7", "8", "9">>
IsDigit(c) == \E i \in 1..10 : DigitChars[i] = c
DigitVal(c) == (CHOOSE i \in 1..10 : DigitChars[i] = c) - 1

RECURSIVE ToDigits(_)
ToDigits(n) ==
    IF n < 10 THEN <<DigitChars[n + 1]>>
    ELSE Append(ToDigits(n \div 10), DigitChars[(n % 10) + 1])

\* std::env::var: Err when the variable is not set, else its text
EnvUnset == [set |-> FALSE, val |-> <<>>]
EnvSet(s) == [set |-> TRUE, val |-> s]
EnvValues ==
    { EnvUnset, EnvSet(<<"x">>), EnvSet(<<"0">>), EnvSet(<<"1">>),
      EnvSet(ToDigits(U64Max)) }

(***************************************************************************)
(* str::parse::<u64>: an optional '+', then one or more decimal digits,    *)
(* the value within the word; anything else is an error.                   *)
(***************************************************************************)
RECURSIVE DecimalValue(_)
DecimalValue(s) ==
    IF s = <<>> THEN 0
    ELSE 10 * DecimalValue(SubSeq(s, 1, Len(s) - 1)) + DigitVal(s[Len(s)])

ParseU64(s) ==
    LET body == IF Len(s) > 0 /\ s[1] = "+" THEN Tail(s) ELSE s
        wellFormed == Len(body) > 0 /\ \A i \in 1..Len(body) : IsDigit(body[i])
    IN  IF wellFormed /\ DecimalValue(body) <= U64Max
        THEN [ok |-> TRUE, val |-> DecimalValue(body)]
        ELSE [ok |-> FALSE, val |-> 0]

\* lib.rs:121-124
wait_seconds(e) ==
    LET text == IF e.set THEN e.val ELSE <<"5">>
        parsed == ParseU64(text)
    IN  IF parsed.ok THEN parsed.val ELSE DefaultWaitSeconds

(***************************************************************************)
(* u64 arithmetic.  An operation whose exact result is outside the word    *)
(* panics when the build checks overflow and wraps when it does not.       *)
(***************************************************************************)
InWord(n) == 0 <= n /\ n <= U64Max
Wrap(n) == ((n % U64Modulus) + U64Modulus) % U64Modulus

\* lib.rs:127, the exact product
InitialBudget(ws) == ws * MillisPerSecond

\* lib.rs:177, the exact difference
Deduct(left, elapsed) == left - elapsed

\* the budget taken for seconds where the duration is built
TimeoutMillis_AsSeconds(left) == left * MillisPerSecond

\* lib.rs:129, the duration handed to timeout()
TimeoutMillis(left) == left

(***************************************************************************)
(* BundleResult items of the result stream (jito_protos::bundle).          *)
(***************************************************************************)
AuctionIds == {"auction1", "auction2"}
Lamports == {0, 7}
Messages == {"m1", "m2"}
TxSignatures == {"abc"}
OptMessages == {None, Some("insufficient funds")}

RecognizedReasons ==
    {"WinningBatchBidRejected", "StateAuctionBidRejected", "SimulationFailure",
     "InternalError"}

AuctionReasons ==
    [kind : {"WinningBatchBidRejected", "StateAuctionBidRejected"},
     auction_id : AuctionIds, simulated_bid_lamports : Lamports, msg : {"m1"}]
SimulationReasons ==
    [kind : {"SimulationFailure"}, tx_signature : TxSignatures, msg : OptMessages]
InternalReasons == [kind : {"InternalError"}, msg : Messages]
NoReason == [kind |-> "None"]

\* BundleResult.bundle_id: the uuid the engine gave the bundle the item is about
Uuids == {"uuid1"}
\* the bundle of an earlier submission, whose results may still be in the stream
EarlierUuids == {"uuid0"}

AcceptedEvent == [bundle_id |-> "uuid1", result |-> "Accepted", reason |-> NoReason]
EmptyEvent == [bundle_id |-> "uuid1", result |-> "None", reason |-> NoReason]
RejectedEvents ==
    [bundle_id : Uuids, result : {"Rejected"},
     reason : AuctionReasons \cup SimulationReasons \cup InternalReasons \cup {NoReason}]
ForBundle(event, id) == [event EXCEPT !.bundle_id = id]
\* what the stream may deliver: the results of the bundle just submitted, and
\* the rejections, with their reason, of an earlier one
StreamEvents ==
    {AcceptedEvent, EmptyEvent} \cup RejectedEvents
        \cup {ForBundle(e, id) :
                 e \in {r \in RejectedEvents : r.reason # NoReason}, id \in EarlierUuids}
NoEvent == [bundle_id |-> "-", result |-> "-", reason |-> NoReason]

\* delay, in ms, between the start of an await and the arrival of the next item
Gaps == {0, 600}
\* run time, in ms, of one loop body
Elapsed == {0, 1}

(***************************************************************************)
(* BundleRejectionError, lib.rs:48-58, and the arms that build it,         *)
(* lib.rs:142-171.                                                         *)
(***************************************************************************)
\* the two auction arms build each other's variant
BundleRejectionError_Swapped(reason) ==
    CASE reason.kind = "WinningBatchBidRejected" ->
           [variant |-> "StateAuctionBidRejected", auction_id |-> reason.auction_id,
            simulated_bid_lamports |-> reason.simulated_bid_lamports]
      [] reason.kind = "StateAuctionBidRejected" ->
           [variant |-> "WinningBatchBidRejected", auction_id |-> reason.auction_id,
            simulated_bid_lamports |-> reason.simulated_bid_lamports]
      [] reason.kind = "SimulationFailure" ->
           [variant |-> "SimulationFailure", tx_signature |-> reason.tx_signature,
            msg |-> reason.msg]
      [] reason.kind = "InternalError" ->
           [variant |-> "InternalError", msg |-> reason.msg]

BundleRejectionError(reason) ==
    CASE reason.kind = "WinningBatchBidRejected" ->
           [variant |-> "WinningBatchBidRejected", auction_id |-> reason.auction_id,
            simulated_bid_lamports |-> reason.simulated_bid_lamports]
      [] reason.kind = "StateAuctionBidRejected" ->
           [variant |-> "StateAuctionBidRejected", auction_id |-> reason.auction_id,
            simulated_bid_lamports |-> reason.simulated_bid_lamports]
      [] reason.kind = "SimulationFailure" ->
           [variant |-> "SimulationFailure", tx_signature |-> reason.tx_signature,
            msg |-> reason.msg]
      [] reason.kind = "InternalError" ->
           [variant |-> "InternalError", msg |-> reason.msg]

\* the InternalError arm left to the catch-all
Returns_NoInternalArm(results) ==
    /\ results.result = "Rejected"
    /\ results.reason.kind \in RecognizedReasons \ {"InternalError"}

\* only the results of the bundle just submitted taken into account
Returns_OwnBundleOnly(results) ==
    /\ results.result = "Rejected"
    /\ results.reason.kind \in RecognizedReasons
    /\ results.bundle_id = submitResult.uuid

\* lib.rs:136-176: the arms of the match that return from the call
Returns(results) ==
    /\ results.result = "Rejected"
    /\ results.reason.kind \in RecognizedReasons

\* the text of the warning of lib.rs:188 in place of the error's own
NotLandedError_WarnText ==
    [variant |-> "InternalError", msg |-> "Transactions in bundle did not land"]

\* lib.rs:189-191
NotLandedError ==
    [variant |-> "InternalError",
     msg |-> "Searcher service did not provide bundle status in time"]

\* BlockEngineConnectionError::ClientError / tonic::Status, lib.rs:45, 114
Statuses == {"Unavailable", "PermissionDenied"}

Pending == [tag |-> "Pending"]
Ok == [tag |-> "Ok"]
Err(e) == [tag |-> "Err", error |-> e]
Panic(where) == [tag |-> "Panic", at |-> where]
OkResponse(uuid) == [tag |-> "OkResponse", uuid |-> uuid]
\* a tonic::Status, which `?` boxes as it is (lib.rs:114)
StatusError(status) == [variant |-> "Status", code |-> status]

(***************************************************************************)
(* send_bundle_no_wait, lib.rs:212-223: the request it builds.             *)
(***************************************************************************)
proto_packet_from_versioned_tx(tx) == [data |-> tx, meta |-> Some([size |-> Len(tx)])]

\* the packets collected back to front
Packets_Reversed(txs) ==
    [i \in 1..Len(txs) |-> proto_packet_from_versioned_tx(txs[Len(txs) + 1 - i])]

\* lib.rs:212-215
Packets(txs) == [i \in 1..Len(txs) |-> proto_packet_from_versioned_tx(txs[i])]

\* lib.rs:218-223
SendBundleRequest(txs) == [bundle |-> Some([header |-> None, packets |-> Packets(txs)])]

\* the last signature of each transaction instead of the first
BundleSignatures_Last(txs) == [i \in 1..Len(txs) |-> txs[i][Len(txs[i])]]

\* lib.rs:111-112
BundleSignatures(txs) == [i \in 1..Len(txs) |-> txs[i][1]]

(***************************************************************************)
(* RpcClient::get_signature_status_with_commitment results and the test    *)
(* on them, lib.rs:187.                                                    *)
(***************************************************************************)
Landed == "Ok(Some(Ok(())))"
QueryResults == {Landed, "Ok(Some(Err(e)))", "Ok(None)", "Err(e)"}

\* any() where all() is meant
AllLanded_Any(results) == \E i \in 1..Len(results) : results[i] = Landed

\* an empty list of results not taken for a landed bundle
AllLanded_NonEmpty(results) ==
    /\ Len(results) > 0
    /\ \A i \in 1..Len(results) : results[i] = Landed

AllLanded(results) == \A i \in 1..Len(results) : results[i] = Landed


\* lib.rs:134 and 177: the Instant is taken after the await has returned, so
\* the time measured is the run of the loop body; the wait for the item is not in it
Measured(gap, body) == body

(***************************************************************************)
(* lib.rs:90-96: the url of create_grpc_channel.                           *)
(***************************************************************************)
Http == <<"h", "t", "t", "p">>
Https == <<"h", "t", "t", "p", "s">>
Authority == <<":", "/", "/", "e">>

NoUrl == <<>>

\* "http://e", "https://e", "HTTPS://e", "httpsx://e", and the empty string
Urls ==
    { Http \o Authority,
      Https \o Authority,
      <<"H", "T", "T", "P", "S">> \o Authority,
      Https \o <<"x">> \o Authority,
      NoUrl }

\* lib.rs:92: str::starts_with, a comparison of the leading characters
StartsWith(s, prefix) ==
    /\ Len(s) >= Len(prefix)
    /\ SubSeq(s, 1, Len(prefix)) = prefix

\* lib.rs:91: Endpoint::from_shared parses the url; the empty string is no Uri
ValidUri(s) == s # <<>>

\* lib.rs:42-43: BlockEngineConnectionError::TransportError, from transport::Error
TransportError == [variant |-> "TransportError"]

\* lib.rs:95: the connected Channel, with the transport its Endpoint was set to
Channel(transport) == [tag |-> "Channel", transport |-> transport]

(***************************************************************************)
(* The state before the call.                                              *)
(***************************************************************************)
Init ==
    /\ api \in {"no_wait", "confirm", "create_channel"}
    /\ url \in Urls
    /\ api # "create_channel" => url = NoUrl
    /\ endpoint = "-"
    /\ transactions \in Bundles
    /\ env \in EnvValues
    /\ overflow_checks = "?"
    /\ silent \in BOOLEAN
    /\ api = "no_wait" => (env = EnvUnset /\ ~silent)
    /\ api = "create_channel" => (transactions = <<>> /\ env = EnvUnset /\ ~silent)
    /\ pc = "start"
    /\ bundle_signatures = <<>>
    /\ submitCalls = <<>>
    /\ submitResult = Pending
    /\ time_left = 0
    /\ waited = 0
    /\ nEvents = 0
    /\ lastEvent = NoEvent
    /\ seenAccepted = FALSE
    /\ exit = "-"
    /\ queried = <<>>
    /\ qres = <<>>
    /\ outcome = Pending

loopVars == <<time_left, waited, nEvents, lastEvent, seenAccepted, exit>>
inputVars == <<api, url, transactions, env, silent>>

(***************************************************************************)
(* lib.rs:111-114 and 212-224: collect the signatures, build the request   *)
(* and issue the one submit call.                                          *)
(***************************************************************************)
SendBundle ==
    /\ pc = "start"
    /\ api \in {"no_wait", "confirm"}
    /\ bundle_signatures' =
          IF api = "confirm" THEN BundleSignatures(transactions) ELSE <<>>
    /\ submitCalls' = Append(submitCalls, SendBundleRequest(transactions))
    /\ pc' = "submit"
    /\ UNCHANGED <<inputVars, endpoint, submitResult, overflow_checks, loopVars, queried, qres, outcome>>

\* every failure of the submit call reported as one and the same status
SubmitFails_Flattened(status) ==
    /\ pc = "submit"
    /\ submitResult' = StatusError(status)
    /\ outcome' = Err(StatusError("Unknown"))
    /\ pc' = "done"
    /\ UNCHANGED <<inputVars, endpoint, overflow_checks, loopVars, bundle_signatures, submitCalls,
                   queried, qres>>

\* lib.rs:224 / lib.rs:114: the call fails with a Status, which is returned
SubmitFails(status) ==
    /\ pc = "submit"
    /\ submitResult' = StatusError(status)
    /\ outcome' = Err(StatusError(status))
    /\ pc' = "done"
    /\ UNCHANGED <<inputVars, endpoint, overflow_checks, loopVars, bundle_signatures, submitCalls,
                   queried, qres>>

\* lib.rs:224: send_bundle_no_wait called by itself returns the response
NoWaitReturns(uuid) ==
    /\ pc = "submit"
    /\ api = "no_wait"
    /\ submitResult' = OkResponse(uuid)
    /\ outcome' = OkResponse(uuid)
    /\ pc' = "done"
    /\ UNCHANGED <<inputVars, endpoint, overflow_checks, loopVars, bundle_signatures, submitCalls,
                   queried, qres>>

\* lib.rs:114-127: the response arrives, the wait window is read, the budget set
EnterLoop(uuid) ==
    /\ pc = "submit"
    /\ api = "confirm"
    /\ submitResult' = OkResponse(uuid)
    /\ LET budget == InitialBudget(wait_seconds(env)) IN
         IF InWord(budget)
         THEN /\ time_left' = budget
              /\ pc' = "loop"
              /\ UNCHANGED <<outcome, exit, overflow_checks>>
         ELSE \/ /\ overflow_checks' = "on"
                 /\ outcome' = Panic("lib.rs:127")
                 /\ pc' = "done"
                 /\ exit' = "panic"
                 /\ UNCHANGED time_left
              \/ /\ overflow_checks' = "off"
                 /\ time_left' = Wrap(budget)
                 /\ pc' = "loop"
                 /\ UNCHANGED <<outcome, exit>>
    /\ UNCHANGED <<inputVars, endpoint, bundle_signatures, submitCalls, queried, qres, waited,
                   nEvents, lastEvent, seenAccepted>>

(***************************************************************************)
(* lib.rs:128-133: one evaluation of the while-let condition.  timeout()   *)
(* polls the stream before its timer, so an item that is there when the    *)
(* timer fires (or at once, with a zero duration) is returned.             *)
(***************************************************************************)
\* Err(Elapsed): no item within the duration
StreamTimeout ==
    /\ pc = "loop"
    /\ waited' = waited + TimeoutMillis(time_left)
    /\ exit' = "timeout"
    /\ pc' = "fallback"
    /\ UNCHANGED <<inputVars, endpoint, submitResult, bundle_signatures, submitCalls, queried, qres, outcome,
                   time_left, nEvents, lastEvent, seenAccepted, overflow_checks>>

\* Ok(None): the stream ends within the duration
StreamClosed(gap) ==
    /\ pc = "loop"
    /\ ~silent
    /\ gap <= TimeoutMillis(time_left)
    /\ waited' = waited + gap
    /\ exit' = "closed"
    /\ pc' = "fallback"
    /\ UNCHANGED <<inputVars, endpoint, submitResult, bundle_signatures, submitCalls, queried, qres, outcome,
                   time_left, nEvents, lastEvent, seenAccepted, overflow_checks>>

\* the error item returned to the caller, as `?` on the item would
StreamError_Propagates(gap) ==
    /\ pc = "loop"
    /\ ~silent
    /\ gap <= TimeoutMillis(time_left)
    /\ waited' = waited + gap
    /\ exit' = "error"
    /\ outcome' = Err(StatusError("Unavailable"))
    /\ pc' = "done"
    /\ UNCHANGED <<inputVars, endpoint, submitResult, bundle_signatures, submitCalls, queried, qres,
                   time_left, nEvents, lastEvent, seenAccepted, overflow_checks>>

\* Ok(Some(Err(status))): the next item of the stream is an error
StreamError(gap) ==
    /\ pc = "loop"
    /\ ~silent
    /\ gap <= TimeoutMillis(time_left)
    /\ waited' = waited + gap
    /\ exit' = "error"
    /\ pc' = "fallback"
    /\ UNCHANGED <<inputVars, endpoint, submitResult, bundle_signatures, submitCalls, queried, qres, outcome,
                   time_left, nEvents, lastEvent, seenAccepted, overflow_checks>>

(***************************************************************************)
(* lib.rs:128-178: Ok(Some(Ok(results))), and the loop body run on it.     *)
(***************************************************************************)
StreamEvent(results, gap, body) ==
    /\ pc = "loop"
    /\ ~silent
    /\ nEvents < MaxEvents
    /\ gap <= TimeoutMillis(time_left)
    /\ nEvents' = nEvents + 1
    /\ lastEvent' = results
    /\ IF Returns(results)
       THEN /\ outcome' = Err(BundleRejectionError(results.reason))
            /\ pc' = "done"
            /\ exit' = "rejected"
            /\ waited' = waited + gap
            /\ UNCHANGED <<time_left, seenAccepted, overflow_checks>>
       ELSE /\ waited' = waited + gap + body
            /\ seenAccepted' = (seenAccepted \/ results.result = "Accepted")
            /\ LET left == Deduct(time_left, Measured(gap, body)) IN
                 IF InWord(left)
                 THEN /\ time_left' = left
                      /\ pc' = "loop"
                      /\ UNCHANGED <<outcome, exit, overflow_checks>>
                 ELSE \/ /\ overflow_checks \in {"?", "on"}
                         /\ overflow_checks' = "on"
                         /\ outcome' = Panic("lib.rs:177")
                         /\ pc' = "done"
                         /\ exit' = "panic"
                         /\ UNCHANGED time_left
                      \/ /\ overflow_checks \in {"?", "off"}
                         /\ overflow_checks' = "off"
                         /\ time_left' = Wrap(left)
                         /\ pc' = "loop"
                         /\ UNCHANGED <<outcome, exit>>
    /\ UNCHANGED <<inputVars, endpoint, submitResult, bundle_signatures, submitCalls, queried, qres>>

(***************************************************************************)
(* lib.rs:180-186: one status query per signature, all awaited together.   *)
(***************************************************************************)
\* the queries sent while the loop is still reading the stream
IssueQueries_Early ==
    /\ pc \in {"loop", "fallback"}
    /\ queried' = bundle_signatures
    /\ qres' = [i \in 1..Len(bundle_signatures) |-> "pending"]
    /\ pc' = "join"
    /\ UNCHANGED <<inputVars, endpoint, submitResult, overflow_checks, loopVars, bundle_signatures, submitCalls,
                   outcome>>

IssueQueries ==
    /\ pc = "fallback"
    /\ queried' = bundle_signatures
    /\ qres' = [i \in 1..Len(bundle_signatures) |-> "pending"]
    /\ pc' = "join"
    /\ UNCHANGED <<inputVars, endpoint, submitResult, overflow_checks, loopVars, bundle_signatures, submitCalls,
                   outcome>>

\* the queries handed to spawned tasks, which run on after the call is dropped
QueryCompletes_Detached(i, r) ==
    /\ pc \in {"join", "dropped"}
    /\ i \in 1..Len(qres)
    /\ qres[i] = "pending"
    /\ qres' = [qres EXCEPT ![i] = r]
    /\ UNCHANGED <<inputVars, endpoint, submitResult, overflow_checks, loopVars, bundle_signatures, submitCalls,
                   queried, pc, outcome>>

\* a query completes, in any order
QueryCompletes(i, r) ==
    /\ pc = "join"
    /\ i \in 1..Len(qres)
    /\ qres[i] = "pending"
    /\ qres' = [qres EXCEPT ![i] = r]
    /\ UNCHANGED <<inputVars, endpoint, submitResult, overflow_checks, loopVars, bundle_signatures, submitCalls,
                   queried, pc, outcome>>

\* returning at the first query that did not land, as try_join_all would
AllComplete_FailFast(results) ==
    \/ \A i \in 1..Len(results) : results[i] # "pending"
    \/ \E i \in 1..Len(results) : results[i] \notin {"pending", Landed}

\* lib.rs:186: join_all is ready when every future has completed
AllComplete(results) == \A i \in 1..Len(results) : results[i] # "pending"

\* lib.rs:186-197: join_all has every result; decide
JoinAll ==
    /\ pc = "join"
    /\ AllComplete(qres)
    /\ outcome' = IF AllLanded(qres) THEN Ok ELSE Err(NotLandedError)
    /\ pc' = "done"
    /\ UNCHANGED <<inputVars, endpoint, submitResult, overflow_checks, loopVars, bundle_signatures, submitCalls,
                   queried, qres>>

(***************************************************************************)
(* lib.rs:91-94: build the Endpoint; TLS is configured when the url text   *)
(* begins with "https".                                                    *)
(***************************************************************************)
CreateEndpoint ==
    /\ pc = "start"
    /\ api = "create_channel"
    /\ IF ~ValidUri(url)
       THEN /\ outcome' = Panic("lib.rs:91")
            /\ pc' = "done"
            /\ UNCHANGED endpoint
       ELSE IF StartsWith(url, Https)
       THEN \/ /\ endpoint' = "tls"
               /\ pc' = "connect"
               /\ UNCHANGED outcome
            \/ /\ outcome' = Err(TransportError)
               /\ pc' = "done"
               /\ UNCHANGED endpoint
       ELSE /\ endpoint' = "plain"
            /\ pc' = "connect"
            /\ UNCHANGED outcome
    /\ UNCHANGED <<inputVars, submitResult, overflow_checks, loopVars, bundle_signatures,
                   submitCalls, queried, qres>>

\* lib.rs:95: endpoint.connect() succeeds
Connected ==
    /\ pc = "connect"
    /\ outcome' = Channel(endpoint)
    /\ pc' = "done"
    /\ UNCHANGED <<inputVars, endpoint, submitResult, overflow_checks, loopVars,
                   bundle_signatures, submitCalls, queried, qres>>

\* lib.rs:95: endpoint.connect() fails, and ? returns the error
ConnectFails ==
    /\ pc = "connect"
    /\ outcome' = Err(TransportError)
    /\ pc' = "done"
    /\ UNCHANGED <<inputVars, endpoint, submitResult, overflow_checks, loopVars,
                   bundle_signatures, submitCalls, queried, qres>>

Next ==
    \/ CreateEndpoint
    \/ Connected
    \/ ConnectFails
    \/ SendBundle
    \/ \E status \in Statuses : SubmitFails(status)
    \/ \E uuid \in Uuids : NoWaitReturns(uuid)
    \/ \E uuid \in Uuids : EnterLoop(uuid)
    \/ StreamTimeout
    \/ \E gap \in Gaps : StreamClosed(gap)
    \/ \E gap \in Gaps : StreamError(gap)
    \/ \E results \in StreamEvents, gap \in Gaps, body \in Elapsed :
          StreamEvent(results, gap, body)
    \/ IssueQueries
    \/ \E i \in 1..Cardinality(TxPool), r \in QueryResults : QueryCompletes(i, r)
    \/ JoinAll

Spec == Init /\ [][Next]_vars

\* the runtime keeps polling the call; the submit call and the status queries
\* return, and the timer of timeout() fires
FairSpec == Spec /\ WF_vars(Next)

(***************************************************************************)
(* lib.rs:98-198: the caller drops the future of the call at one of its    *)
(* awaits: the submit call (114), the next stream item (128-133), the      *)
(* status queries (186).  The awaited futures are fields of the dropped    *)
(* future; the function spawns no task.                                    *)
(***************************************************************************)
SuspensionPoints == {"submit", "loop", "join"}

Drop ==
    /\ pc \in SuspensionPoints
    /\ pc' = "dropped"
    /\ UNCHANGED <<inputVars, endpoint, submitResult, overflow_checks, loopVars, bundle_signatures,
                   submitCalls, queried, qres, outcome>>

NextDrop == Next \/ Drop

DropSpec == Init /\ [][NextDrop]_vars

(***************************************************************************)
(* Notions the properties share.                                           *)
(***************************************************************************)
\* the configured wait window, in ms
WaitWindow == wait_seconds(env) * MillisPerSecond

\* the loop was left through its while-let condition (not by a return)
LoopExited == exit \in {"timeout", "closed", "error"}

\* the step consumes a stream event
Consumes == nEvents' = nEvents + 1

\* a letter of a scheme in lower case
ToLower(c) ==
    CASE c = "H" -> "h"
      [] c = "T" -> "t"
      [] c = "P" -> "p"
      [] c = "S" -> "s"
      [] OTHER -> c

\* the scheme of a url: what stands before the first ":", without regard to case
Scheme(s) ==
    LET colons == {i \in 1..Len(s) : s[i] = ":"} IN
      IF colons = {} THEN <<>>
      ELSE LET first == CHOOSE i \in colons : \A j \in colons : i <= j IN
             [k \in 1..(first - 1) |-> ToLower(s[k])]

TxA == <<"sigA">>
TxB == <<"sigB", "sigC">>

(***************************************************************************)
(* C1: with a stream that never emits and never closes, the call ends, it  *)
(* leaves the loop by the timeout without having consumed anything, and    *)
(* the time it waited on the stream is at most the wait window.            *)
(***************************************************************************)
C1_SilentStreamBounded ==
    /\ silent => <>(pc = "done")
    /\ [](silent /\ pc \in {"fallback", "join", "done"} /\ exit # "-" =>
            /\ exit \in {"timeout", "panic"}
            /\ nEvents = 0
            /\ waited <= WaitWindow)

C1_Witness ==
    /\ silent
    /\ pc = "done"
    /\ exit = "timeout"
    /\ waited = DefaultWaitSeconds * MillisPerSecond
    /\ outcome = Ok

(***************************************************************************)
(* C2: the event loop is left no later than the wait window after it was   *)
(* entered, whatever the stream emits (stated for the runs in which no     *)
(* arithmetic overflowed; those are the subject of C5).                    *)
(***************************************************************************)
C2_LoopExitsWithinWindow ==
    (pc = "fallback" /\ overflow_checks = "?") => waited <= WaitWindow

(***************************************************************************)
(* C3: a Rejected event with one of the four reasons, once read, ends the  *)
(* call with the error of that reason, and no status query is issued.      *)
(***************************************************************************)
C3_RejectedShortCircuits ==
    (lastEvent.result = "Rejected" /\ lastEvent.reason.kind \in RecognizedReasons) =>
        /\ pc = "done"
        /\ outcome.tag = "Err"
        /\ outcome.error.variant = lastEvent.reason.kind
        /\ queried = <<>>
        /\ qres = <<>>

C3_Witness ==
    /\ pc = "done"
    /\ Len(transactions) = 2
    /\ lastEvent.result = "Rejected"
    /\ lastEvent.reason.kind = "SimulationFailure"
    /\ outcome =
          Err([variant |-> "SimulationFailure", tx_signature |-> "abc",
               msg |-> Some("insufficient funds")])
    /\ queried = <<>>

(***************************************************************************)
(* C4: after the loop was left without a rejection, the call returns Ok    *)
(* exactly when every status query reported Ok(Some(Ok(()))); in every     *)
(* other case it returns the not-landed error.                             *)
(***************************************************************************)
C4_AllOrNothing ==
    (pc = "done" /\ LoopExited) =>
        /\ Len(qres) = Len(transactions)
        /\ outcome = Ok <=> (\A i \in DOMAIN qres : qres[i] = "Ok(Some(Ok(())))")
        /\ outcome # Ok => outcome = Err(NotLandedError)

C4_Witness ==
    /\ pc = "done"
    /\ LoopExited
    /\ Len(qres) = 2
    /\ qres[1] = Landed
    /\ qres[2] = "Ok(None)"
    /\ outcome = Err(NotLandedError)

(***************************************************************************)
(* C5: while the loop runs the budget never underflows (no panic, no       *)
(* wrap-around to a larger value), and an iteration that starts with a     *)
(* budget of zero consumes no event.                                       *)
(***************************************************************************)
C5_BudgetNeverUnderflows ==
    [][pc = "loop" =>
         /\ time_left' <= time_left
         /\ outcome'.tag # "Panic"
         /\ (time_left = 0 => ~Consumes)]_vars

(***************************************************************************)
(* C6: an Accepted event does not end the call: after it the loop is       *)
(* waiting for the next event again; a Rejected event with a recognized    *)
(* reason read after it still ends the call with its error.                *)
(***************************************************************************)
C6_AcceptedKeepsWaiting ==
    /\ [][(Consumes /\ lastEvent'.result = "Accepted") =>
            (pc' = "loop" /\ outcome' = Pending)]_vars
    /\ [][(seenAccepted /\ Consumes /\ Returns(lastEvent')) =>
            /\ pc' = "done"
            /\ outcome' = Err(BundleRejectionError(lastEvent'.reason))]_vars

(***************************************************************************)
(* C7: an event with no result, or a Rejected event with no recognized     *)
(* reason, does not end the call: the loop waits on, with the budget that  *)
(* remains.                                                                *)
(***************************************************************************)
C7_IgnoredKeepsWaiting ==
    [][(Consumes /\ lastEvent'.result # "Accepted" /\ ~Returns(lastEvent')) =>
         (pc' = "loop" /\ outcome' = Pending /\ time_left' <= time_left)]_vars

(***************************************************************************)
(* C8: the error returned for a rejection is the variant named like the    *)
(* event's reason and carries the event's fields unchanged.                *)
(***************************************************************************)
C8_ErrorMatchesReason ==
    (pc = "done" /\ exit = "rejected") =>
        LET r == lastEvent.reason
            e == outcome.error
        IN  /\ outcome.tag = "Err"
            /\ e.variant = r.kind
            /\ r.kind \in {"WinningBatchBidRejected", "StateAuctionBidRejected"} =>
                  /\ DOMAIN e = {"variant", "auction_id", "simulated_bid_lamports"}
                  /\ e.auction_id = r.auction_id
                  /\ e.simulated_bid_lamports = r.simulated_bid_lamports
            /\ r.kind = "SimulationFailure" =>
                  /\ DOMAIN e = {"variant", "tx_signature", "msg"}
                  /\ e.tx_signature = r.tx_signature
                  /\ e.msg = r.msg
            /\ r.kind = "InternalError" =>
                  /\ DOMAIN e = {"variant", "msg"}
                  /\ e.msg = r.msg

C8_Witness ==
    /\ pc = "done"
    /\ exit = "rejected"
    /\ lastEvent.reason.kind = "StateAuctionBidRejected"
    /\ outcome =
          Err([variant |-> "StateAuctionBidRejected", auction_id |-> "auction2",
               simulated_bid_lamports |-> 7])

(***************************************************************************)
(* C9: the signatures queried in the fallback are the first signatures of  *)
(* the submitted transactions, in their order, one query each; outside the *)
(* fallback no query is issued.                                            *)
(***************************************************************************)
C9_QueriedAreSubmitted ==
    IF pc = "join" \/ (pc = "done" /\ LoopExited)
    THEN /\ Len(queried) = Len(transactions)
         /\ Len(qres) = Len(transactions)
         /\ \A i \in 1..Len(transactions) : queried[i] = Head(transactions[i])
    ELSE queried = <<>> /\ qres = <<>>

C9_Witness ==
    /\ pc = "join"
    /\ transactions = <<TxB, TxA>>
    /\ queried = <<"sigB", "sigA">>

(***************************************************************************)
(* C10: either entry point issues exactly one submit call; its request is  *)
(* one bundle with no header and one packet per transaction, in the order  *)
(* of the transactions.                                                    *)
(***************************************************************************)
C10_OneSubmitInOrder ==
    api \in {"no_wait", "confirm"} =>
        /\ Len(submitCalls) = IF pc = "start" THEN 0 ELSE 1
        /\ pc # "start" =>
              LET bundle == submitCalls[1].bundle
              IN  /\ Len(bundle) = 1
                  /\ bundle[1].header = None
                  /\ Len(bundle[1].packets) = Len(transactions)
                  /\ \A i \in 1..Len(transactions) :
                        bundle[1].packets[i].data = transactions[i]

C10_Witness ==
    /\ api = "no_wait"
    /\ pc = "done"
    /\ transactions = <<TxB, TxA>>
    /\ outcome.tag = "OkResponse"
    /\ Len(submitCalls) = 1

(***************************************************************************)
(* C11: when the submit call fails with a status, confirm returns that     *)
(* status as its error, and it has neither evaluated the loop condition    *)
(* (no item taken from the stream) nor issued a status query.              *)
(***************************************************************************)
C11_SubmitFailurePropagates ==
    (api = "confirm" /\ "variant" \in DOMAIN submitResult) =>
        /\ pc = "done"
        /\ outcome.tag = "Err"
        /\ outcome.error.variant = "Status"
        /\ outcome.error.code = submitResult.code
        /\ nEvents = 0
        /\ exit = "-"
        /\ waited = 0
        /\ queried = <<>>
        /\ qres = <<>>

C11_Witness ==
    /\ api = "confirm"
    /\ pc = "done"
    /\ Len(transactions) = 2
    /\ submitResult = StatusError("PermissionDenied")
    /\ outcome = Err(StatusError("PermissionDenied"))

(***************************************************************************)
(* C12: in the fallback the call returns only when every status query has  *)
(* completed, in whatever order they complete and also when one has failed *)
(* already; what it returns is decided by the results alone.               *)
(***************************************************************************)
C12_JoinsAll ==
    [][(pc = "join" /\ pc' = "done") =>
         /\ Len(qres) = Len(transactions)
         /\ \A i \in 1..Len(qres) : qres[i] \in QueryResults
         /\ qres' = qres
         /\ outcome' = IF \A i \in 1..Len(qres) : qres[i] = Landed
                       THEN Ok ELSE Err(NotLandedError)]_vars

\* the second query has failed before the first completed, and the call waits
C12_Witness ==
    /\ pc = "join"
    /\ outcome = Pending
    /\ qres = <<"pending", "Err(e)">>

(***************************************************************************)
(* C13, as claimed: every fallback that does not return Ok returns         *)
(* InternalError("bundle not confirmed in time").                          *)
(***************************************************************************)
C13_NotConfirmedText ==
    (pc = "done" /\ LoopExited /\ outcome # Ok) =>
        outcome = Err([variant |-> "InternalError",
                       msg |-> "bundle not confirmed in time"])

(***************************************************************************)
(* C13, amended: every fallback that does not return Ok returns one and    *)
(* the same error, InternalError("Searcher service did not provide bundle  *)
(* status in time"), whichever queries failed and however they failed.     *)
(***************************************************************************)
C13_OneNotLandedError ==
    (pc = "done" /\ LoopExited /\ (\E i \in 1..Len(qres) : qres[i] # Landed)) =>
        outcome = Err([variant |-> "InternalError",
                       msg |-> "Searcher service did not provide bundle status in time"])

C13_Witness ==
    /\ pc = "done"
    /\ LoopExited
    /\ qres = <<"Err(e)", "Ok(Some(Err(e)))">>
    /\ outcome.tag = "Err"
    /\ outcome.error.variant = "InternalError"

(***************************************************************************)
(* C14: the uuid of the response is not compared with the bundle_id of the *)
(* stream's items: a Rejected event with a recognized reason that is about *)
(* another bundle (left in the stream by an earlier submission) ends the   *)
(* call with its error all the same.                                       *)
(***************************************************************************)
C14_StreamNotFiltered ==
    (/\ lastEvent.result = "Rejected"
     /\ lastEvent.reason.kind \in RecognizedReasons
     /\ lastEvent.bundle_id # submitResult.uuid) =>
        /\ pc = "done"
        /\ outcome = Err(BundleRejectionError(lastEvent.reason))
        /\ queried = <<>>

C14_Witness ==
    /\ pc = "done"
    /\ exit = "rejected"
    /\ nEvents = 1
    /\ submitResult = OkResponse("uuid1")
    /\ lastEvent.bundle_id = "uuid0"
    /\ outcome = Err([variant |-> "InternalError", msg |-> "m2"])

(***************************************************************************)
(* C15: with an empty list of transactions no status query is issued, and  *)
(* once the loop is left without a rejection the call returns Ok.          *)
(***************************************************************************)
C15_EmptyBundleLands ==
    (api = "confirm" /\ transactions = <<>>) =>
        /\ queried = <<>>
        /\ qres = <<>>
        /\ (pc = "done" /\ LoopExited) => outcome = Ok

C15_Witness ==
    /\ api = "confirm"
    /\ transactions = <<>>
    /\ pc = "done"
    /\ exit = "timeout"
    /\ outcome = Ok

(***************************************************************************)
(* C16: the budget the loop starts with is 1000 times the number of        *)
(* seconds of the setting when it parses, and 5000 ms when it is missing   *)
(* or does not parse; computing it never ends the call.                    *)
(***************************************************************************)
C16_BudgetIsWaitWindow ==
    /\ ~(outcome.tag = "Panic" /\ outcome.at = "lib.rs:127")
    /\ (pc = "loop" /\ nEvents = 0) =>
          time_left = IF env.set /\ ParseU64(env.val).ok
                      THEN ParseU64(env.val).val * 1000
                      ELSE 5 * 1000

(***************************************************************************)
(* C17: once the caller has dropped a confirm call, at the submit, at the  *)
(* await of the next stream item or at the status queries, nothing more    *)
(* is done for it: no submit, no stream read, no query is issued and no    *)
(* pending query completes; dropping itself does none of these either.     *)
(***************************************************************************)
C17_DropLeavesNoWork ==
    [][(api = "confirm" /\ (pc = "dropped" \/ pc' = "dropped")) =>
          /\ pc' = "dropped"
          /\ UNCHANGED <<submitCalls, submitResult, loopVars, queried, qres, outcome>>]_vars

C17_Witness ==
    /\ api = "confirm"
    /\ pc = "dropped"
    /\ Len(submitCalls) = 1
    /\ nEvents = 1
    /\ exit = "timeout"
    /\ qres = <<Landed, "pending">>
    /\ outcome = Pending

(***************************************************************************)
(* C18: create_grpc_channel sets the channel up with TLS exactly when the  *)
(* scheme of the url is https, and without it otherwise; when it fails,    *)
(* the error it returns is a TransportError.                               *)
(***************************************************************************)
C18_TlsIffHttpsScheme ==
    api = "create_channel" =>
        /\ endpoint # "-" => (endpoint = "tls" <=> Scheme(url) = Https)
        /\ (pc = "done" /\ outcome.tag = "Err") => outcome.error = TransportError
        /\ (pc = "done" /\ outcome.tag = "Channel") => outcome.transport = endpoint

(***************************************************************************)
(* C19: an error item on the stream ends the loop at once and is not       *)
(* returned: the call goes on to the status queries, one per transaction,  *)
(* and returns Ok when every one of them landed and the not-landed error   *)
(* otherwise.                                                              *)
(***************************************************************************)
C19_StreamErrorFallsBack ==
    exit = "error" =>
        /\ pc \in {"fallback", "join", "done"}
        /\ pc = "fallback" => (queried = <<>> /\ outcome = Pending)
        /\ pc = "join" => (queried = bundle_signatures /\ outcome = Pending)
        /\ pc = "done" =>
              /\ Len(qres) = Len(transactions)
              /\ outcome = IF \A i \in 1..Len(qres) : qres[i] = Landed
                           THEN Ok
                           ELSE Err(NotLandedError)

C19_Witness ==
    /\ exit = "error"
    /\ pc = "done"
    /\ nEvents = 1
    /\ lastEvent.result = "Accepted"
    /\ Len(transactions) = 2
    /\ qres = <<Landed, Landed>>
    /\ outcome = Ok

(***************************************************************************)
(* C20: in a confirm call a stream event is consumed only after the one    *)
(* submit call has returned its response and while no status query has     *)
(* been issued; the queries are issued, and complete, only after the loop  *)
(* was left through its condition; from the first query on, no event is    *)
(* consumed and the loop's state stays as it is.                           *)
(***************************************************************************)
C20_PhasesInOrder ==
    [][api = "confirm" =>
          /\ Consumes =>
                /\ pc = "loop"
                /\ Len(submitCalls) = 1
                /\ "uuid" \in DOMAIN submitResult
                /\ queried = <<>>
                /\ qres = <<>>
          /\ (pc' = "join" \/ queried' # queried \/ qres' # qres) =>
                /\ LoopExited
                /\ "uuid" \in DOMAIN submitResult
          /\ pc = "join" => (~Consumes /\ UNCHANGED loopVars)]_vars

C20_Witness ==
    /\ api = "confirm"
    /\ pc = "done"
    /\ nEvents = 2
    /\ exit = "closed"
    /\ transactions = <<TxA, TxB>>
    /\ queried = <<"sigA", "sigB">>
    /\ qres = <<Landed, Landed>>
    /\ outcome = Ok

====
